---- MODULE Spec2Model ----
(***************************************************************************)
(* Model of cge_modeling/production_functions.py: the generators of        *)
(* string equations for CES, Dixit-Stiglitz and Leontief technologies and  *)
(* their input normalisers.                                                *)
(*                                                                         *)
(* A Python str is a TLA+ string.  A Python argument that may be a str, a  *)
(* list of str or None is a tagged record: t is "str", "list" or "none"    *)
(* and v is the sequence of the strings it holds (one string for a str).   *)
(* The caller's argument objects are the state; a call reads them, may     *)
(* mutate a list among them, and leaves its outcome in result.             *)
(***************************************************************************)
EXTENDS Integers, Sequences, FiniteSets, TLC

VARIABLES factors, factor_prices, factor_shares, dims, coords, backend, TFP,
          op, result

vars == <<factors, factor_prices, factor_shares, dims, coords, backend, TFP,
          op, result>>

args == <<factors, factor_prices, factor_shares, dims, coords, backend, TFP>>

\* ------------------------------------------------------------------ bounds

\* Longest list of factors, prices or shares a caller passes.
MaxLen == 3

\* ------------------------------------------------------- Python values

Str(s) == [t |-> "str", v |-> <<s>>]
List(xs) == [t |-> "list", v |-> xs]
None == [t |-> "none", v |-> <<>>]

isinstance_str(x) == x.t = "str"
isinstance_list(x) == x.t = "list"

\* The characters of a str, in order (what iterating a str yields).
Chars(s) == [i \in 1..Len(s) |-> SubSeq(s, i, i)]

\* len(x) of a str (its characters) or a list (its elements).
len(x) == IF isinstance_str(x) THEN Len(x.v[1]) ELSE Len(x.v)

\* What `for e in x` yields: the characters of a str, the elements of a list.
iter(x) == IF isinstance_str(x) THEN Chars(x.v[1]) ELSE x.v

\* str(x) as an f-string or "_".join sees a str argument.
str(x) == x.v[1]

Min(a, b) == IF a <= b THEN a ELSE b

\* sep.join(xs)
RECURSIVE join(_, _)
join(sep, xs) ==
    IF Len(xs) = 0 THEN ""
    ELSE IF Len(xs) = 1 THEN xs[1]
    ELSE xs[1] \o sep \o join(sep, Tail(xs))

\* Outcomes of a call.
Return(value) == [status |-> "return", exc |-> "", err |-> "", msg |-> "", value |-> value]
Raise(exc, err, msg) == [status |-> "raise", exc |-> exc, err |-> err, msg |-> msg, value |-> <<>>]
NoResult == [status |-> "none", exc |-> "", err |-> "", msg |-> "", value |-> <<>>]

\* cge_modeling.tools.pytensor_tools.at_least_list: a list is returned as it
\* is (the same object), anything else is wrapped in a new one-element list.
at_least_list(x) == IF isinstance_list(x) THEN x ELSE List(<<str(x)>>)

unwrap_singleton_list(x) ==
    IF isinstance_list(x) /\ len(x) = 1 THEN Str(x.v[1]) ELSE x

\* ------------------------------------------------- scalar arguments

\* The names a caller passes for output, output_price and epsilon.
output == "Y"
output_price == "P_Y"
epsilon == "eps"

ARG_NAMES == <<"factors", "factor_prices", "factor_shares">>

\* ---------------------------------------------- input normaliser

\* The pairs itertools.combinations(range(n), 2) yields that disagree in
\* length, and the first of them in the order it yields them.
MismatchedPairs(list_args) ==
    {p \in (1..Len(list_args)) \X (1..Len(list_args)) :
        p[1] < p[2] /\ len(list_args[p[1]]) # len(list_args[p[2]])}

FirstPair(S) ==
    CHOOSE p \in S : \A q \in S : p[1] < q[1] \/ (p[1] = q[1] /\ p[2] <= q[2])

\* Mutant: the lengths compared are len() of the arguments as passed, so a
\* bare string counts its characters.
_check_pairwise_lengths_match_raw(names, arglist) ==
    LET bad == MismatchedPairs(arglist)
    IN  IF bad = {} THEN Return(<<>>)
        ELSE LET p == FirstPair(bad)
             IN  Raise("ValueError", "length_mismatch",
                       "Lengths of " \o names[p[1]] \o " and " \o names[p[2]]
                           \o " do not match")

_check_pairwise_lengths_match(names, arglist) ==
    LET list_args == [i \in 1..Len(arglist) |-> at_least_list(arglist[i])]
        bad == MismatchedPairs(list_args)
    IN  IF bad = {} THEN Return(<<>>)
        ELSE LET p == FirstPair(bad)
             IN  Raise("ValueError", "length_mismatch",
                       "Lengths of " \o names[p[1]] \o " and " \o names[p[2]]
                           \o " do not match")

\* ------------------------------------------------ share completion

\* Mutant: the second share is appended to any single share, whatever the
\* number of factors.
_add_second_alpha_any_factors(alpha, fs) ==
    LET a == at_least_list(alpha)
    IN  IF len(a) = 1
        THEN LET appended == List(Append(a.v, "1 - " \o a.v[1]))
             IN  [ret |-> appended,
                  alpha |-> IF isinstance_list(alpha) THEN appended ELSE alpha]
        ELSE [ret |-> a, alpha |-> alpha]

\* ret is the list returned; alpha is the caller's alpha object after the
\* call: at_least_list hands back the caller's own list, so the append on
\* line 92 lands in it.
_add_second_alpha(alpha, fs) ==
    IF ~isinstance_list(fs) \/ len(fs) # 2
    THEN [ret |-> at_least_list(alpha), alpha |-> alpha]
    ELSE LET a == at_least_list(alpha)
         IN  IF len(fs) = 2 /\ len(a) = 1
             THEN LET appended == List(Append(a.v, "1 - " \o a.v[1]))
                  IN  [ret |-> appended,
                       alpha |-> IF isinstance_list(alpha) THEN appended ELSE alpha]
             ELSE [ret |-> a, alpha |-> alpha]

\* ---------------------------------------------------------- CES

production_inner(factor, factor_share, eps) ==
    "(" \o factor_share \o ") * " \o factor \o " ** ((" \o eps \o " - 1) / " \o eps \o ")"

factor_demand(factor, factor_price, out, out_price, factor_share, tfp, eps) ==
    factor \o " = " \o out \o " / " \o tfp \o " * ((" \o factor_share \o ") * "
        \o out_price \o " * " \o tfp \o " / " \o factor_price \o ") ** " \o eps

\* res is the outcome; shares is the caller's factor_shares object afterwards.
CES(fs, fps, out, out_price, tfp, shares, eps) ==
    LET completed == _add_second_alpha(shares, fs)
        sh == completed.ret
        chk == _check_pairwise_lengths_match(ARG_NAMES, <<fs, fps, sh>>)
        f == iter(fs)
        p == iter(fps)
        a == iter(sh)
        inner == [i \in 1..Min(Len(f), Len(a)) |-> production_inner(f[i], a[i], eps)]
        eq_production ==
            out \o " = " \o tfp \o " * (" \o join(" + ", inner) \o ") ** ("
                \o eps \o " / (" \o eps \o " - 1))"
        eq_fac_demands ==
            [i \in 1..Min(Len(f), Min(Len(p), Len(a))) |->
                factor_demand(f[i], p[i], out, out_price, a[i], tfp, eps)]
    IN  [res |-> IF chk.status = "raise" THEN chk
                 ELSE Return(<<eq_production>> \o eq_fac_demands),
         shares |-> completed.alpha]

\* ---------------------------------------------------- coordinates

\* A coords argument: a dict (d maps each dimension name to its labels) or None.
Dict(d) == [t |-> "dict", d |-> d]
NoDict == [t |-> "none", d |-> [k \in {} |-> <<>>]]

keys(c) == DOMAIN c.d

\* How an f-string or Template renders a value: a str as it is, a list as
\* its repr, None as "None".
fmt(x) ==
    IF isinstance_str(x) THEN str(x)
    ELSE IF isinstance_list(x)
         THEN "[" \o join(", ", [i \in 1..Len(x.v) |-> "'" \o x.v[i] \o "'"]) \o "]"
         ELSE "None"

\* ------------------------------------------------- Dixit-Stiglitz

\* The first of factors, factor_prices, factor_shares that is a list of a
\* length other than one (0 when there is none).
FirstNotSingle(vs) ==
    LET bad == {i \in 1..Len(vs) : isinstance_list(vs[i]) /\ len(vs[i]) # 1}
    IN  IF bad = {} THEN 0 ELSE CHOOSE i \in bad : \A j \in bad : i <= j

\* Mutant: the technology term is rendered once, before the parenthesis.
ds_factor_demands_single_TFP(f, fp, out, out_price, eps, TFP_str, share_str) ==
    f \o " = " \o out \o " / " \o TFP_str \o "(" \o share_str
        \o out_price \o " / " \o fp \o ") ** " \o eps

\* demand_template, lines 311-321, with TFP_str and share_str already spliced in.
ds_factor_demands(f, fp, out, out_price, eps, TFP_str, share_str) ==
    f \o " = " \o out \o " / " \o TFP_str \o "(" \o TFP_str \o share_str
        \o out_price \o " / " \o fp \o ") ** " \o eps

dixit_stiglitz(fs, fps, out, out_price, eps, dm, crds, bk, tfp, shares) ==
    LET bad == FirstNotSingle(<<fs, fps, shares>>)
        f == unwrap_singleton_list(fs)
        fp == unwrap_singleton_list(fps)
        sh == unwrap_singleton_list(shares)
        share_str == IF sh.t # "none" THEN fmt(sh) \o " * " ELSE ""
        TFP_str == IF tfp.t # "none" THEN fmt(tfp) \o " * " ELSE ""
        kernel == share_str \o fmt(f) \o " ** ((" \o eps \o " - 1) / " \o eps \o ")"
        dim_len == Len(crds.d[str(dm)]) - 1
        power == " ** (" \o eps \o " / (" \o eps \o " - 1))"
        rhs_str ==
            IF bk = "numba"
            THEN "Sum(" \o kernel \o ", (" \o fmt(dm) \o ", 0, " \o ToString(dim_len)
                     \o "))" \o power
            ELSE "(" \o kernel \o ").sum()" \o power
        production_function == out \o " = " \o TFP_str \o rhs_str
        factor_demands ==
            ds_factor_demands(fmt(f), fmt(fp), out, out_price, eps, TFP_str, share_str)
    IN  IF bad # 0
        THEN Raise("ValueError", "cardinality",
                   "Dixit-Stiglitz production function expects only a single factor input, but provided "
                       \o ARG_NAMES[bad] \o " has length "
                       \o ToString(len(<<fs, fps, shares>>[bad])))
        ELSE IF ~isinstance_str(dm)
        THEN Raise("TypeError", "unhashable", "unhashable type: 'list'")
        ELSE IF str(dm) \notin keys(crds)
        THEN Raise("KeyError", "dimension_lookup", "'" \o str(dm) \o "'")
        ELSE IF bk \notin {"numba", "pytensor"}
        THEN Raise("ValueError", "backend",
                   "backend must be one of 'numba' or 'pytensor', found " \o bk)
        ELSE Return(<<production_function, factor_demands>>)

\* ------------------------------------------------------- Leontief

ascii_lowercase ==
    <<"a", "b", "c", "d", "e", "f", "g", "h", "i", "j", "k", "l", "m",
      "n", "o", "p", "q", "r", "s", "t", "u", "v", "w", "x", "y", "z">>

\* Mutant: the zero-profit sum stops one term short.
_1d_leontief_short_sum(fs, fps, out, out_price, shares) ==
    LET f == iter(fs)
        p == iter(fps)
        a == iter(shares)
        zp_rhs == join(" + ", [i \in 1..(Min(Len(f), Len(p)) - 1) |-> p[i] \o " * " \o f[i]])
        zero_profit == out_price \o " * " \o out \o " = " \o zp_rhs
        factor_demands ==
            [i \in 1..Min(Len(f), Len(a)) |-> f[i] \o " = " \o out \o " * " \o a[i]]
    IN  Return(<<zero_profit>> \o factor_demands)

_1d_leontief(fs, fps, out, out_price, shares) ==
    LET f == iter(fs)
        p == iter(fps)
        a == iter(shares)
        zp_rhs == join(" + ", [i \in 1..Min(Len(f), Len(p)) |-> p[i] \o " * " \o f[i]])
        zero_profit == out_price \o " * " \o out \o " = " \o zp_rhs
        factor_demands ==
            [i \in 1..Min(Len(f), Len(a)) |-> f[i] \o " = " \o out \o " * " \o a[i]]
    IN  Return(<<zero_profit>> \o factor_demands)

_swapaxes(x, i, j) == x \o ".subs({" \o i \o ":" \o j \o "})"

\* The positions in ascii_lowercase of the letters that are no key of coords.
FreeLetters(crds) ==
    {n \in 1..Len(ascii_lowercase) : ascii_lowercase[n] \notin keys(crds)}

\* Mutant: the first lowercase letter, declared as a dimension or not.
temp_dim_first_letter(crds) == ascii_lowercase[1]

\* sorted(set(ascii_lowercase) - named_dims)[0]
temp_dim(crds) ==
    ascii_lowercase[CHOOSE n \in FreeLetters(crds) : \A m \in FreeLetters(crds) : n <= m]

_T(x, i, j, crds) ==
    x \o ".subs([(" \o i \o ", " \o temp_dim(crds) \o "), (" \o j \o ", " \o i
        \o "), (" \o temp_dim(crds) \o ", " \o j \o ")])"

\* The "numba" branch of _2d_leontief, lines 410-417.
_2d_numba(f, fp, sh, out, out_price, dm, crds) ==
    LET d == iter(dm)
        core_dim == d[1]
        batch_dim == d[2]
        rhs == "Sum(" \o _swapaxes(fp, core_dim, batch_dim) \o " * "
                   \o _T(f, core_dim, batch_dim, crds) \o ", (" \o batch_dim \o ", 0, "
                   \o ToString(Len(crds.d[batch_dim]) - 1) \o "))"
    IN  IF Len(d) # 2
        THEN Raise("ValueError", "unpack", "wrong number of values to unpack")
        ELSE IF FreeLetters(crds) = {}
        THEN Raise("IndexError", "no_free_letter", "list index out of range")
        ELSE IF batch_dim \notin keys(crds)
        THEN Raise("KeyError", "dimension_lookup", "'" \o batch_dim \o "'")
        ELSE Return(<<out_price \o " * " \o out \o " = " \o rhs,
                      f \o " = " \o sh \o " * " \o _swapaxes(out, core_dim, batch_dim)>>)

\* The "pytensor" branch of _2d_leontief, lines 420-421.
_2d_pytensor(f, fp, sh, out, out_price) ==
    Return(<<out_price \o " * " \o out \o " = (" \o fp \o "[:, None] * " \o f
                 \o ").sum(axis=0).ravel()",
             f \o " = " \o sh \o " * " \o out \o "[None]">>)

\* Mutant: the last branch is a bare else, so any tag but "numba" renders the
\* "pytensor" equations.
_2d_leontief_any_backend(fs, fps, out, out_price, shares, dm, crds, bk) ==
    LET f == fmt(unwrap_singleton_list(fs))
        fp == fmt(unwrap_singleton_list(fps))
        sh == fmt(unwrap_singleton_list(shares))
    IN  IF bk = "numba" THEN _2d_numba(f, fp, sh, out, out_price, dm, crds)
        ELSE _2d_pytensor(f, fp, sh, out, out_price)

_2d_leontief(fs, fps, out, out_price, shares, dm, crds, bk) ==
    LET f == fmt(unwrap_singleton_list(fs))
        fp == fmt(unwrap_singleton_list(fps))
        sh == fmt(unwrap_singleton_list(shares))
    IN  IF bk = "numba" THEN _2d_numba(f, fp, sh, out, out_price, dm, crds)
        ELSE IF bk = "pytensor" THEN _2d_pytensor(f, fp, sh, out, out_price)
        ELSE Raise("ValueError", "backend",
                   "backend must be one of 'numba' or 'pytensor', found " \o bk)

leontief(fs, fps, out, out_price, shares, dm, crds, bk) ==
    LET chk == _check_pairwise_lengths_match(ARG_NAMES, <<fs, fps, shares>>)
    IN  IF chk.status = "raise" THEN chk
        ELSE IF isinstance_str(dm) \/ len(dm) = 1
        THEN IF len(fs) = 1
             THEN Raise("ValueError", "cardinality",
                        "Leontief production function expects at least two factors when len(dims) == 1, found "
                            \o ToString(len(fs)))
             ELSE _1d_leontief(fs, fps, out, out_price, shares)
        ELSE IF len(fs) # 1
             THEN Raise("ValueError", "cardinality",
                        "Leontief production function expects exactly one factor when len(dims) == 2, found "
                            \o ToString(len(fs)))
             ELSE _2d_leontief(fs, fps, out, out_price, shares, dm, crds, bk)

\* ------------------------------------------- unpack_string_inputs

RECURSIVE Flatten(_)
Flatten(xss) == IF Len(xss) = 0 THEN <<>> ELSE Head(xss) \o Flatten(Tail(xss))

\* itertools.product(*lists): the tuples in lexicographic order of their
\* positions, the last list varying fastest.
RECURSIVE product(_)
product(lists) ==
    IF Len(lists) = 0 THEN << <<>> >>
    ELSE LET rest == product(Tail(lists))
         IN  Flatten([i \in 1..Len(Head(lists)) |->
                         [j \in 1..Len(rest) |-> <<Head(lists)[i]>> \o rest[j]]])

\* The value returned is the list of output lists, each a sequence of names.
unpack_string_inputs(inputs, dm, crds) ==
    LET ins == [i \in 1..Len(inputs) |-> unwrap_singleton_list(inputs[i])]
        as_lists == [i \in 1..Len(ins) |-> at_least_list(ins[i]).v]
        d == iter(dm)
        labels == [k \in 1..Len(d) |-> crds.d[d[k]]]
        label_prod == product(labels)
        outputs ==
            [i \in 1..Len(ins) |->
                [n \in 1..Len(label_prod) |-> join("_", <<str(ins[i])>> \o label_prod[n])]]
    IN  IF \A i \in 1..Len(ins) : isinstance_list(ins[i])
        THEN Return(as_lists)
        ELSE IF crds.t = "none" \/ dm.t = "none"
        THEN Return(as_lists)
        ELSE IF ~(\A k \in 1..Len(d) : d[k] \in keys(crds))
        THEN Raise("KeyError", "dimension_lookup",
                   "Dimensions " \o fmt(dm) \o " not found in coords")
        ELSE IF Len(label_prod) > 0 /\ (\E i \in 1..Len(ins) : isinstance_list(ins[i]))
        THEN Raise("TypeError", "join", "sequence item 0: expected str instance, list found")
        ELSE Return(outputs)

\* ------------------------------------------------------ the callers

FactorNames == <<"K", "L", "M", "N", "O">>
PriceNames == <<"r", "w", "P_M", "P_N", "P_O">>
ShareNames == <<"alpha", "beta", "gamma", "delta", "zeta">>

Prefixes(names) == {List(SubSeq(names, 1, n)) : n \in 0..MaxLen}

FactorArgs == {Str("X"), Str("VA")} \cup Prefixes(FactorNames)
PriceArgs == {Str("P"), Str("P_VA")} \cup Prefixes(PriceNames)
ShareArgs == {Str("psi"), None} \cup Prefixes(ShareNames)
DimsArgs == {Str("i"), List(<<"i">>), List(<<"i", "j">>), List(<<"a", "j">>), None}
CoordsArgs ==
    {Dict([i |-> <<"A", "B">>, j |-> <<"X", "Y">>]),
     Dict([a |-> <<"A">>, i |-> <<"A", "B">>, j |-> <<"X", "Y", "Z">>]),
     Dict([j |-> <<"X", "Y">>]),
     NoDict}
BackendArgs == {"numba", "pytensor", "jax"}
TFPArgs == {Str("A"), None}

Init ==
    /\ factors \in FactorArgs
    /\ factor_prices \in PriceArgs
    /\ factor_shares \in ShareArgs
    /\ dims \in DimsArgs
    /\ coords \in CoordsArgs
    /\ backend \in BackendArgs
    /\ TFP \in TFPArgs
    /\ op = "idle"
    /\ result = NoResult

CallCES ==
    /\ op = "idle"
    /\ TFP.t = "str"
    /\ factor_shares.t # "none"
    /\ LET r == CES(factors, factor_prices, output, output_price, str(TFP),
                    factor_shares, epsilon)
       IN  /\ result' = r.res
           /\ factor_shares' = r.shares
    /\ op' = "CES"
    /\ UNCHANGED <<factors, factor_prices, dims, coords, backend, TFP>>

CallDixitStiglitz ==
    /\ op = "idle"
    /\ dims.t # "none"
    /\ coords.t = "dict"
    /\ result' = dixit_stiglitz(factors, factor_prices, output, output_price, epsilon,
                                dims, coords, backend, TFP, factor_shares)
    /\ op' = "dixit_stiglitz"
    /\ UNCHANGED args

CallLeontief ==
    /\ op = "idle"
    /\ factor_shares.t # "none"
    /\ dims.t # "none"
    /\ coords.t = "dict"
    /\ result' = leontief(factors, factor_prices, output, output_price, factor_shares,
                          dims, coords, backend)
    /\ op' = "leontief"
    /\ UNCHANGED args

\* unpack_string_inputs(factors), (factors, factor_prices) or all three.
CallUnpack ==
    /\ op = "idle"
    /\ \E n \in 1..3 :
        /\ n = 3 => factor_shares.t # "none"
        /\ result' = unpack_string_inputs(
                         SubSeq(<<factors, factor_prices, factor_shares>>, 1, n),
                         dims, coords)
        /\ op' = IF n = 1 THEN "unpack1" ELSE IF n = 2 THEN "unpack2" ELSE "unpack3"
    /\ UNCHANGED args

CallAddSecondAlpha ==
    /\ op = "idle"
    /\ factor_shares.t # "none"
    /\ LET r == _add_second_alpha(factor_shares, factors)
       IN  /\ result' = Return(r.ret.v)
           /\ factor_shares' = r.alpha
    /\ op' = "_add_second_alpha"
    /\ UNCHANGED <<factors, factor_prices, dims, coords, backend, TFP>>

\* The caller takes the outcome; its argument objects stay as the call left them.
Done ==
    /\ op # "idle"
    /\ op' = "idle"
    /\ result' = NoResult
    /\ UNCHANGED args

Next ==
    \/ CallCES
    \/ CallDixitStiglitz
    \/ CallLeontief
    \/ CallUnpack
    \/ CallAddSecondAlpha
    \/ Done

Spec == Init /\ [][Next]_vars

\* ------------------------------------------------------------ claims

\* The names an argument denotes: a bare string one name, a list its elements.
NamesOf(x) == IF isinstance_str(x) THEN <<x.v[1]>> ELSE x.v

NameCount(x) == Len(NamesOf(x))

\* The share names of a CES call after share completion, as the
\* specification words it: two factors and one share give [s, "1 - " + s].
CompletedShares(shares, fs) ==
    IF isinstance_list(fs) /\ Len(fs.v) = 2 /\ NameCount(shares) = 1
    THEN <<NamesOf(shares)[1], "1 - " \o NamesOf(shares)[1]>>
    ELSE NamesOf(shares)

LengthsAgree ==
    /\ NameCount(factors) = NameCount(factor_prices)
    /\ NameCount(factors) = NameCount(factor_shares)

OneDimPath == isinstance_str(dims) \/ (isinstance_list(dims) /\ Len(dims.v) = 1)
TwoDimPath == isinstance_list(dims) /\ Len(dims.v) = 2

IsCardinalityError(r) == r.status = "raise" /\ r.err = "cardinality"
IsBackendError(r) == r.status = "raise" /\ r.err = "backend"
IsLengthMismatch(r) == r.status = "raise" /\ r.err = "length_mismatch"

\* C1: a leontief call whose factors, prices and shares agree in length
\* raises a cardinality error exactly when the factor count violates the
\* arity of the dispatched path: on the 1-D path fewer than two factors fail
\* and two or more return equations; on the 2-D path any count but one fails
\* and exactly one proceeds to the 2-D generator.
C1_LeontiefCardinality ==
    (op = "leontief" /\ LengthsAgree) =>
        /\ OneDimPath =>
            /\ NameCount(factors) < 2 => IsCardinalityError(result)
            /\ NameCount(factors) >= 2 => result.status = "return"
        /\ TwoDimPath =>
            /\ NameCount(factors) # 1 => IsCardinalityError(result)
            /\ NameCount(factors) = 1 => ~IsCardinalityError(result)

\* The demand equation of the specification for the i-th factor.
DemandOf(f, p, a) ==
    f \o " = " \o output \o " / " \o str(TFP) \o " * ((" \o a \o ") * " \o output_price
        \o " * " \o str(TFP) \o " / " \o p \o ") ** " \o epsilon

\* C2: a CES call whose factors, prices and completed shares each denote
\* N >= 1 names returns N+1 equations, and the (i+1)-th is the demand
\* equation built from the full i-th factor, price and share names.
C2_CESDemands ==
    LET f == NamesOf(factors)
        p == NamesOf(factor_prices)
        a == CompletedShares(factor_shares, factors)
    IN  (op = "CES" /\ Len(f) >= 1 /\ Len(p) = Len(f) /\ Len(a) = Len(f)) =>
            /\ result.status = "return"
            /\ Len(result.value) = Len(f) + 1
            /\ \A i \in 1..Len(f) : result.value[i + 1] = DemandOf(f[i], p[i], a[i])

\* A call's arguments are otherwise valid when the same call returns
\* equations under each supported backend.
OtherwiseValid ==
    IF op = "dixit_stiglitz"
    THEN \A b \in {"numba", "pytensor"} :
            dixit_stiglitz(factors, factor_prices, output, output_price, epsilon,
                           dims, coords, b, TFP, factor_shares).status = "return"
    ELSE \A b \in {"numba", "pytensor"} :
            leontief(factors, factor_prices, output, output_price, factor_shares,
                     dims, coords, b).status = "return"

UnsupportedBackend == backend \notin {"numba", "pytensor"}

\* Arguments given as lists of names that meet every other requirement of
\* the specification: equal lengths, the arity of the dispatched path, and
\* dims that coords declares.
ValidListArgs ==
    /\ isinstance_list(factors) /\ isinstance_list(factor_prices)
    /\ IF op = "dixit_stiglitz"
       THEN /\ factor_shares.t \in {"list", "none"}
            /\ Len(factors.v) = 1 /\ Len(factor_prices.v) = 1
            /\ isinstance_list(factor_shares) => Len(factor_shares.v) = 1
            /\ isinstance_str(dims) /\ str(dims) \in keys(coords)
       ELSE /\ isinstance_list(factor_shares) /\ LengthsAgree
            /\ OneDimPath \/ TwoDimPath
            /\ OneDimPath => Len(factors.v) >= 2
            /\ TwoDimPath => Len(factors.v) = 1
            /\ \A k \in 1..Len(iter(dims)) : iter(dims)[k] \in keys(coords)

\* C3 as stated: every dixit_stiglitz or leontief call with an unsupported
\* backend tag and otherwise valid arguments ends in an unsupported-backend
\* error, on the 1-D path of leontief as on the 2-D path.
C3_BackendRejectedEverywhere ==
    (op \in {"dixit_stiglitz", "leontief"} /\ UnsupportedBackend /\ ValidListArgs) =>
        IsBackendError(result)

\* C3 amended: with an unsupported backend tag, dixit_stiglitz and the 2-D
\* path of leontief never return equations, and end in the
\* unsupported-backend error when the arguments are otherwise valid; the
\* 1-D path of leontief does not look at the tag and gives the outcome it
\* gives under a supported one.
C3_BackendRejectedWhereUsed ==
    UnsupportedBackend =>
        /\ (op = "dixit_stiglitz" \/ (op = "leontief" /\ ~OneDimPath)) =>
            /\ result.status = "raise"
            /\ OtherwiseValid => IsBackendError(result)
        /\ (op = "leontief" /\ OneDimPath) =>
            /\ result = leontief(factors, factor_prices, output, output_price,
                                 factor_shares, dims, coords, "numba")
            /\ OtherwiseValid => result.status = "return"

C3_Witness ==
    /\ op = "leontief"
    /\ UnsupportedBackend
    /\ TwoDimPath
    /\ OtherwiseValid
    /\ IsBackendError(result)

\* The lengths the length check compares: the names each argument denotes,
\* the shares of a CES call after share completion.
CheckedLengths ==
    <<NameCount(factors), NameCount(factor_prices),
      IF op = "CES" THEN Len(CompletedShares(factor_shares, factors))
      ELSE NameCount(factor_shares)>>

LengthsDisagree == \E i, j \in 1..3 : CheckedLengths[i] # CheckedLengths[j]

\* C4: in CES and leontief, whenever two of factors, factor_prices and
\* factor_shares disagree in length, the call ends in the length-mismatch
\* error, whatever dims, the factor count and the backend tag are, and the
\* message names a pair of arguments whose lengths really differ.
C4_LengthMismatchFirst ==
    (op \in {"CES", "leontief"} /\ LengthsDisagree) =>
        /\ IsLengthMismatch(result)
        /\ \E i, j \in 1..3 :
            /\ i < j
            /\ CheckedLengths[i] # CheckedLengths[j]
            /\ result.msg = "Lengths of " \o ARG_NAMES[i] \o " and " \o ARG_NAMES[j]
                                \o " do not match"

\* A leontief call that also breaks the arity of its path, names a
\* dimension coords lacks and carries an unsupported backend tag.
C4_Witness ==
    /\ op = "leontief"
    /\ TwoDimPath
    /\ NameCount(factors) = 2
    /\ NameCount(factor_shares) = 1
    /\ iter(dims)[1] \notin keys(coords)
    /\ UnsupportedBackend
    /\ result.msg = "Lengths of factors and factor_shares do not match"

\* C5: no call changes any of the caller's argument objects.
C5_NoArgumentMutated == [][args' = args]_vars

\* The inputs of the unpack_string_inputs call that op records.
UnpackCalled == op \in {"unpack1", "unpack2", "unpack3"}
UnpackArity == IF op = "unpack1" THEN 1 ELSE IF op = "unpack2" THEN 2 ELSE 3
UnpackInputs == SubSeq(<<factors, factor_prices, factor_shares>>, 1, UnpackArity)

\* A bare string, or a singleton list (which stands for its one string).
IsBare(x) == isinstance_str(x) \/ (isinstance_list(x) /\ Len(x.v) = 1)

\* The label lists of dims, in dims order.
DimLabels == [k \in 1..Len(iter(dims)) |-> coords.d[iter(dims)[k]]]

\* The number of tuples of the Cartesian product of the label lists from
\* position k on.
RECURSIVE TuplesFrom(_)
TuplesFrom(k) == IF k > Len(DimLabels) THEN 1 ELSE Len(DimLabels[k]) * TuplesFrom(k + 1)

\* The label of dimension k in the n-th tuple (n from 1) when the last
\* dimension varies fastest.
LabelAt(n, k) ==
    DimLabels[k][(((n - 1) \div TuplesFrom(k + 1)) % Len(DimLabels[k])) + 1]

ExpectedName(base, n) ==
    join("_", <<base>> \o [k \in 1..Len(DimLabels) |-> LabelAt(n, k)])

\* C6: with dims and coords present, every dim a key of coords and at least
\* one input a bare string or singleton list, unpack_string_inputs returns,
\* for each bare-string input, one name per tuple of the Cartesian product
\* of the dims' labels: the base name joined with the labels by underscores,
\* the last dimension varying fastest; and all output lists are equally long.
C6_UnpackProduct ==
    (/\ UnpackCalled
     /\ dims.t # "none" /\ coords.t = "dict"
     /\ \A k \in 1..Len(iter(dims)) : iter(dims)[k] \in keys(coords)
     /\ \E i \in 1..UnpackArity : IsBare(UnpackInputs[i])) =>
        /\ result.status = "return"
        /\ Len(result.value) = UnpackArity
        /\ \A i \in 1..UnpackArity :
            /\ Len(result.value[i]) = Len(result.value[1])
            /\ IsBare(UnpackInputs[i]) =>
                /\ Len(result.value[i]) = TuplesFrom(1)
                /\ \A n \in 1..TuplesFrom(1) :
                    result.value[i][n] = ExpectedName(NamesOf(UnpackInputs[i])[1], n)

\* C7: share completion turns one share s given with a two-element list of
\* factors into [s, "1 - " + s]; with two shares given, or factors not a
\* two-element list, it returns the given shares as a list with nothing
\* added; completing its own result again changes nothing.
C7_ShareCompletion ==
    [][op' = "_add_second_alpha" =>
        LET given == NamesOf(factor_shares)
            two_factors == isinstance_list(factors) /\ Len(factors.v) = 2
        IN  /\ result'.status = "return"
            /\ (two_factors /\ Len(given) = 1) =>
                   result'.value = <<given[1], "1 - " \o given[1]>>
            /\ (Len(given) = 2 \/ ~two_factors) => result'.value = given
            /\ _add_second_alpha(List(result'.value), factors).ret = List(result'.value)
      ]_vars

C7_Witness ==
    /\ op = "_add_second_alpha"
    /\ isinstance_list(factors) /\ Len(factors.v) = 2
    /\ factor_shares = Str("psi")
    /\ result.value = <<"psi", "1 - psi">>

\* The alphabetically first lowercase letter that is no key of coords.
FirstUnusedLetter ==
    LET pos == CHOOSE n \in 1..Len(ascii_lowercase) :
                   /\ ascii_lowercase[n] \notin keys(coords)
                   /\ \A m \in 1..(n - 1) : ascii_lowercase[m] \in keys(coords)
    IN  ascii_lowercase[pos]

TwoDimNumbaReturned ==
    /\ op = "leontief"
    /\ backend = "numba"
    /\ ~OneDimPath
    /\ result.status = "return"

\* C8: a 2-D Leontief call with the "numba" backend that returns renders the
\* transpose with the alphabetically first lowercase letter that is no key
\* of coords as its temporary index ("a" when coords has no key "a"), in
\* the order (core_dim -> temp), (batch_dim -> core_dim), (temp -> batch_dim).
C8_TransposeTemp ==
    TwoDimNumbaReturned =>
        LET core == iter(dims)[1]
            batch == iter(dims)[2]
            tmp == FirstUnusedLetter
            f == NamesOf(factors)[1]
            fp == NamesOf(factor_prices)[1]
        IN  /\ "a" \notin keys(coords) => tmp = "a"
            /\ result.value[1] =
                   output_price \o " * " \o output \o " = Sum(" \o fp \o ".subs({" \o core
                       \o ":" \o batch \o "}) * " \o f \o ".subs([(" \o core \o ", " \o tmp
                       \o "), (" \o batch \o ", " \o core \o "), (" \o tmp \o ", " \o batch
                       \o ")]), (" \o batch \o ", 0, "
                       \o ToString(Len(coords.d[batch]) - 1) \o "))"

\* coords declares "a", so the temporary index is "b".
C8_Witness ==
    /\ TwoDimNumbaReturned
    /\ "a" \in keys(coords)
    /\ factors = List(<<"K">>)
    /\ result.value[1] =
           "P_Y * Y = Sum(r.subs({i:j}) * K.subs([(i, b), (j, i), (b, j)]), (j, 0, 2))"

OneDimListCall ==
    /\ op = "leontief"
    /\ OneDimPath
    /\ isinstance_list(factors) /\ isinstance_list(factor_prices)
    /\ isinstance_list(factor_shares)
    /\ LengthsAgree
    /\ Len(factors.v) >= 2

\* C9: a 1-D Leontief call with N >= 2 factors given as lists of equal
\* length returns N+1 equations: the zero-profit condition with the N terms
\* price_i * factor_i in input order, then factor_i = output * share_i for
\* each i, with no price in it.
C9_OneDimLeontief ==
    OneDimListCall =>
        LET N == Len(factors.v)
            terms == [i \in 1..N |-> factor_prices.v[i] \o " * " \o factors.v[i]]
        IN  /\ result.status = "return"
            /\ Len(result.value) = N + 1
            /\ result.value[1] = output_price \o " * " \o output \o " = " \o join(" + ", terms)
            /\ \A i \in 1..N :
                   result.value[i + 1] =
                       factors.v[i] \o " = " \o output \o " * " \o factor_shares.v[i]

C9_Witness ==
    /\ OneDimListCall
    /\ Len(factors.v) = 3
    /\ result.value = <<"P_Y * Y = r * K + w * L + P_M * M", "K = Y * alpha",
                        "L = Y * beta", "M = Y * gamma">>

DSCalled == op = "dixit_stiglitz"

\* Some of factors, factor_prices, factor_shares is a list that does not
\* hold exactly one name.
DSNotSingle ==
    \E x \in {factors, factor_prices, factor_shares} :
        isinstance_list(x) /\ Len(x.v) # 1

\* The bare-string form of an argument that denotes one name.
Bare(x) == IF isinstance_list(x) THEN Str(x.v[1]) ELSE x

\* The pieces of the rendered strings that come and go with TFP and shares.
TFPPrefix == IF TFP.t = "none" THEN "" ELSE str(TFP) \o " * "
SharePrefix == IF factor_shares.t = "none" THEN "" ELSE NamesOf(factor_shares)[1] \o " * "

ExpectedKernel ==
    SharePrefix \o NamesOf(factors)[1] \o " ** ((eps - 1) / eps)"

ExpectedDSProduction ==
    "Y = " \o TFPPrefix
        \o (IF backend = "numba"
            THEN "Sum(" \o ExpectedKernel \o ", (" \o str(dims) \o ", 0, "
                     \o ToString(Len(coords.d[str(dims)]) - 1) \o "))"
            ELSE "(" \o ExpectedKernel \o ").sum()")
        \o " ** (eps / (eps - 1))"

ExpectedDSDemand ==
    NamesOf(factors)[1] \o " = Y / " \o TFPPrefix \o "(" \o TFPPrefix \o SharePrefix
        \o "P_Y / " \o NamesOf(factor_prices)[1] \o ") ** eps"

\* C10: a dixit_stiglitz call that does not fail returns exactly two
\* equations, for TFP and factor_shares each supplied or omitted and for
\* both backends; the share and the TFP name are rendered only when
\* supplied, the TFP prefix twice in the demand equation; a singleton list
\* gives what the bare string gives, and a list of any other length fails
\* with a cardinality error.
C10_DixitStiglitz ==
    DSCalled =>
        /\ DSNotSingle => IsCardinalityError(result)
        /\ result.status = "return" =>
            /\ backend \in {"numba", "pytensor"}
            /\ Len(result.value) = 2
            /\ result.value[1] = ExpectedDSProduction
            /\ result.value[2] = ExpectedDSDemand
        /\ ~DSNotSingle =>
            result = dixit_stiglitz(Bare(factors), Bare(factor_prices), output,
                                    output_price, epsilon, dims, coords, backend, TFP,
                                    Bare(factor_shares))

\* TFP supplied and shares omitted, the factor given as a singleton list.
C10_Witness ==
    /\ DSCalled
    /\ factors = List(<<"K">>)
    /\ factor_shares = None
    /\ result.value = <<"Y = A * Sum(K ** ((eps - 1) / eps), (i, 0, 1)) ** (eps / (eps - 1))",
                        "K = Y / A * (A * P_Y / P_VA) ** eps">>

\* The zero-profit equation of a 2-D "numba" call as it reads with t as the
\* temporary index of the transpose.
ZeroProfitWithTemp(t) ==
    LET core == iter(dims)[1]
        batch == iter(dims)[2]
    IN  output_price \o " * " \o output \o " = Sum(" \o NamesOf(factor_prices)[1]
            \o ".subs({" \o core \o ":" \o batch \o "}) * " \o NamesOf(factors)[1]
            \o ".subs([(" \o core \o ", " \o t \o "), (" \o batch \o ", " \o core
            \o "), (" \o t \o ", " \o batch \o ")]), (" \o batch \o ", 0, "
            \o ToString(Len(coords.d[batch]) - 1) \o "))"

\* C11: in every 2-D Leontief call with the "numba" backend that returns,
\* the temporary index rendered in the transpose is a lowercase letter
\* different from core_dim and from batch_dim, also when core_dim is no key
\* of coords.
C11_TempIsFresh ==
    TwoDimNumbaReturned =>
        \E n \in 1..Len(ascii_lowercase) :
            /\ ascii_lowercase[n] \notin {iter(dims)[1], iter(dims)[2]}
            /\ result.value[1] = ZeroProfitWithTemp(ascii_lowercase[n])

====
